---- MODULE Spec2Model ----
(***************************************************************************)
(* Model of the cell toolbar tracker of src/src/celltoolbartracker.ts:     *)
(* CellToolbarTracker keeps one CellToolbarWidget (and the positioned      *)
(* buttons) on the rendering surface of every notebook cell, and decodes   *)
(* the settings composite into three shared ObservableLists.               *)
(*                                                                         *)
(* The host (notebook model, notebook widget, settings object, command     *)
(* registry) is the environment.  One action is one event of the host's    *)
(* single-threaded loop, run to completion: the host's own update followed *)
(* by every slot connected to the signal.                                  *)
(***************************************************************************)
EXTENDS Integers, Sequences, FiniteSets, TLC

(* ------------------------------ bounds --------------------------------- *)

\* number of cell model identities the host can create
MaxCells == 2
\* longest defaultTags list of a settings snapshot
MaxTagLen == 2
\* longest _allTags list the model follows (repeated default tags make the
\* list grow without limit)
MaxAllTags == 3

(* --------------------------- value encodings --------------------------- *)

\* A nullable / optional JavaScript value: None is null or undefined,
\* Some(x) is the value x.
None == <<>>
Some(x) == <<x>>

\* An optional string property that is absent.
Absent == ""

Trackers == {1, 2}
Cells == 1..MaxCells
Tags == {"a", "b", "c"}

\* All sequences over S of length at most n.
SeqUpTo(S, n) == UNION {[1..k -> S] : k \in 0..n}

Range(s) == {s[i] : i \in 1..Len(s)}

(* ------------------------------ constants ------------------------------ *)

DEFAULT_LEFT_MENU ==
  << [cellType |-> "markdown", command |-> "notebook:change-cell-to-code",
      icon |-> "codeIcon", tooltip |-> Absent],
     [cellType |-> "code", command |-> "notebook:change-cell-to-markdown",
      icon |-> "markdownIcon", tooltip |-> Absent],
     [cellType |-> "code", command |-> "jupyterlab_code_formatter:format",
      icon |-> "formatIcon", tooltip |-> "Format Cell"],
     [cellType |-> Absent, command |-> "notebook:delete-cell",
      icon |-> "deleteIcon", tooltip |-> Absent] >>

POSITIONED_BUTTONS ==
  << [cellType |-> Absent, command |-> "notebook:run-cell-and-select-next",
      icon |-> "runIcon", tooltip |-> Absent],
     [cellType |-> Absent, command |-> "notebook:move-cell-up",
      icon |-> "caretUpEmptyThinIcon", tooltip |-> Absent],
     [cellType |-> Absent, command |-> "notebook:move-cell-down",
      icon |-> "caretDownEmptyThinIcon", tooltip |-> Absent],
     [cellType |-> Absent, command |-> "notebook:insert-cell-below",
      icon |-> "addIcon", tooltip |-> Absent] >>

CELL_BAR_CLASS == "jp-enh-cell-bar"

\* The menu items of the README's settings example, which users write in
\* leftMenu and rightMenu.
UserMenuItems ==
  { [cellType |-> Absent, command |-> "notebook:run-cell",
     icon |-> "ui-components:run", tooltip |-> Absent],
    [cellType |-> Absent, command |-> "notebook:delete-cell",
     icon |-> "@jlab-enhanced/cell-toolbar:delete", tooltip |-> Absent] }

(* ------------------------- settings snapshots -------------------------- *)

\* A composite of the settings schema: defaultTags is a list of strings,
\* leftMenu and rightMenu are null or a list of menu items, leftSpace is a
\* number >= 0.  None stands for null, and for a key the composite lacks.
Snapshot(tags, left, right, space) ==
  [defaultTags |-> tags, leftMenu |-> left, rightMenu |-> right,
   leftSpace |-> space]

RunItem == CHOOSE m \in UserMenuItems : m.command = "notebook:run-cell"
DeleteItem == CHOOSE m \in UserMenuItems : m.command = "notebook:delete-cell"

\* The values of leftMenu and of rightMenu: null, the empty list, and lists
\* of the README's items.
MenuValues ==
  {None, Some(<< >>), Some(<<RunItem>>), Some(<<DeleteItem, RunItem>>)}

\* The values of leftSpace: absent, the schema's default, the README's value.
SpaceValues == {None, Some(0), Some(48)}

\* Snapshots that vary the default tags.
TagSnapshots ==
  {Snapshot(Some(tg), None, None, Some(0)) : tg \in SeqUpTo(Tags, MaxTagLen)}

\* Snapshots that vary the two menus.
MenuSnapshots ==
  {Snapshot(Some(<< >>), l, r, Some(0)) : l \in MenuValues, r \in MenuValues}

\* The snapshots of the specification of the settings decoding.
ListSnapshots == TagSnapshots \cup MenuSnapshots

\* The snapshots of the specification of the cell events: they vary the
\* left space and the left menu.
SpaceSnapshots ==
  {Snapshot(Some(<<"a">>), l, None, sp) :
     l \in {None, Some(<<RunItem>>)}, sp \in SpaceValues}

(* ------------------------------- state --------------------------------- *)

VARIABLES
  \* host: the cell models in the notebook model's cell list of each panel
  \* (the tracker reads neither the list nor an index of the change)
  cells,
  \* host: the cell widgets of panel.content.widgets, named by their model
  widgets,
  \* host: layout.widgets of each cell widget, a list of child widgets
  layout,
  \* host: settings.composite
  composite,
  \* host: the commands registered in the CommandRegistry
  commands,
  \* host: the trackers connected to settings.changed
  settingsSlots,
  \* host: the trackers connected to cells.changed of each panel
  cellsSlots,
  \* tracker fields
  constructed, _settings, _panel, _isDisposed,
  _allTags, _leftMenuItems, _rightMenuItems, _previousDefaultTags,
  \* the change events the three ObservableLists of each tracker emitted
  \* during the last step of the host's event loop, in emission order
  emitted,
  \* the arguments of the cells.changed signal the last step emitted, None
  \* when the last step emitted none
  changed,
  \* dispose() has been called on the tracker when it was disposed already
  redisposed,
  \* a TypeError was thrown out of a tracker method
  thrown

hostVars == <<cells, widgets, layout, composite, commands, settingsSlots,
              cellsSlots>>
listVars == <<_allTags, _leftMenuItems, _rightMenuItems,
              _previousDefaultTags>>
trackerVars == <<constructed, _settings, _panel, _isDisposed>>
vars == <<hostVars, trackerVars, listVars, emitted, changed, redisposed,
          thrown>>

(* --------------------------- ObservableList ---------------------------- *)

\* An ObservableList during a handler: its array and the change events it
\* has emitted so far.  name is the tracker field that holds the list.
Event(name, type, old, new) ==
  [list |-> name, type |-> type, oldValues |-> old, newValues |-> new]

\* list.clear(): empties the array and emits one 'remove' event, also when
\* the array was empty already.
clear(name, r) ==
  [array |-> << >>,
   events |-> Append(r.events, Event(name, "remove", r.array, << >>))]

\* list.pushAll(values): appends the values in order and emits one 'add'
\* event, also when values is empty.
pushAll(name, r, values) ==
  [array |-> r.array \o values,
   events |-> Append(r.events, Event(name, "add", << >>, values))]

\* Index of the first occurrence of v in s, 0 when there is none.
FirstIndex(s, v) ==
  IF v \in Range(s) THEN CHOOSE i \in 1..Len(s) :
                           s[i] = v /\ \A j \in 1..(i - 1) : s[j] # v
                    ELSE 0

RemoveAt(s, i) == SubSeq(s, 1, i - 1) \o SubSeq(s, i + 1, Len(s))

\* list.removeValue(v): removes the first occurrence of v and emits one
\* 'remove' event; does nothing when v is not in the list.
removeValue(name, r, v) ==
  LET i == FirstIndex(r.array, v) IN
  IF i = 0 THEN r
  ELSE [array |-> RemoveAt(r.array, i),
        events |-> Append(r.events, Event(name, "remove", <<v>>, << >>))]

\* values.forEach(v => list.removeValue(v))
RECURSIVE removeEach(_, _, _)
removeEach(name, r, values) ==
  IF values = << >> THEN r
  ELSE removeEach(name, removeValue(name, r, Head(values)), Tail(values))

(* ----------------------------- widgets --------------------------------- *)

\* style.width = `${leftSpace}px`
Px(n) == <<n, "px">>

\* (x as number) || 0 for an optional number >= 0
OrZero(opt) == IF opt = None THEN 0 ELSE opt[1]

\* (x as T[]) || [] for an optional list
OrEmpty(opt) == IF opt = None THEN << >> ELSE opt[1]

\* The reference to an ObservableList: the tracker that owns it and the
\* field that holds it.
Ref(t, name) == <<t, name>>

\* The children a cell widget is built with by the host.
CellChildren ==
  << [kind |-> "content", name |-> "header", classes |-> {}],
     [kind |-> "content", name |-> "input", classes |-> {}],
     [kind |-> "content", name |-> "footer", classes |-> {}] >>

\* new CellToolbarWidget(commands, model, tags, left, right, leftSpace): keeps
\* the three list references and sets its spacer region to the left space.
CellToolbarWidget(model, tagsList, leftMenuItems, rightMenuItems, leftSpace) ==
  [kind |-> "toolbar", classes |-> {}, model |-> model,
   tagsList |-> tagsList, leftMenuItems |-> leftMenuItems,
   rightMenuItems |-> rightMenuItems, spacerWidth |-> Px(leftSpace)]

\* `jp-enh-cell-${command.split(':')[1]}`, Absent when the command has no
\* part after a colon
CommandClassName(command) ==
  CASE command = "notebook:run-cell-and-select-next"
         -> "jp-enh-cell-run-cell-and-select-next"
    [] command = "notebook:move-cell-up" -> "jp-enh-cell-move-cell-up"
    [] command = "notebook:move-cell-down" -> "jp-enh-cell-move-cell-down"
    [] command = "notebook:insert-cell-below" -> "jp-enh-cell-insert-cell-below"
    [] OTHER -> Absent

\* `jp-enh-cell-${cellType || 'all'}`
CellTypeClassName(cellType) ==
  CASE cellType = "code" -> "jp-enh-cell-code"
    [] cellType = "markdown" -> "jp-enh-cell-markdown"
    [] cellType = "raw" -> "jp-enh-cell-raw"
    [] OTHER -> "jp-enh-cell-all"

\* commands.label(id) of the host's command registry
Label(command) ==
  CASE command = "notebook:run-cell-and-select-next"
         -> "Run Selected Cells"
    [] command = "notebook:move-cell-up" -> "Move Cells Up"
    [] command = "notebook:move-cell-down" -> "Move Cells Down"
    [] command = "notebook:insert-cell-below" -> "Insert Cell Below"
    [] OTHER -> Absent

\* new PositionedButton({...others, callback, className, tooltip})
PositionedButton(icon, command, className, tooltip) ==
  [kind |-> "button", icon |-> icon, callback |-> command,
   classes |-> IF className = Absent THEN {} ELSE {className},
   tooltip |-> tooltip]

\* widget.addClass(name)
addClass(w, name) == [w EXCEPT !.classes = @ \cup {name}]

\* layout.insertWidget(index, w), index counted from 0
insertWidget(ws, index, w) ==
  SubSeq(ws, 1, index) \o <<w>> \o SubSeq(ws, index + 1, Len(ws))

\* layout.addWidget(w)
addWidget(ws, w) == Append(ws, w)

IsToolbar(w) == w.kind = "toolbar"
IsButton(w) == w.kind = "button"

(* ------------------------ _onSettingsChanged --------------------------- *)

\* The list fields of a freshly constructed tracker (field initialisers).
NewFields ==
  [allTags |-> << >>, leftMenuItems |-> << >>, rightMenuItems |-> << >>,
   previousDefaultTags |-> << >>]

\* decodeLeftMenu with the test of the list's length taken for the test of
\* null: an empty list gets the default menu.
decodeLeftMenu_EmptyAsNull(r, comp) ==
  LET leftItems == comp.leftMenu
      cleared == IF Len(r.array) > 0 THEN clear("_leftMenuItems", r) ELSE r
  IN IF leftItems # None /\ Len(leftItems[1]) > 0
       THEN pushAll("_leftMenuItems", cleared, leftItems[1])
       ELSE pushAll("_leftMenuItems", cleared, DEFAULT_LEFT_MENU)

\* Lines 188-201: the left menu list r (its array and the events emitted so
\* far) after the leftMenu of comp is decoded into it.
decodeLeftMenu(r, comp) ==
  LET leftItems == comp.leftMenu
      cleared == IF Len(r.array) > 0 THEN clear("_leftMenuItems", r) ELSE r
  IN IF leftItems # None
       THEN IF Len(leftItems[1]) > 0
              THEN pushAll("_leftMenuItems", cleared, leftItems[1])
              ELSE cleared
       ELSE pushAll("_leftMenuItems", cleared, DEFAULT_LEFT_MENU)

\* decodeRightMenu without the tests of length: clear and pushAll always.
decodeRightMenu_Unguarded(r, comp) ==
  pushAll("_rightMenuItems", clear("_rightMenuItems", r),
          OrEmpty(comp.rightMenu))

\* decodeRightMenu without the clear.
decodeRightMenu_NoClear(r, comp) ==
  LET rightItems == OrEmpty(comp.rightMenu)
  IN IF Len(rightItems) > 0
       THEN pushAll("_rightMenuItems", r, rightItems)
       ELSE r

\* Lines 202-210: the right menu list after the rightMenu of comp is decoded.
decodeRightMenu(r, comp) ==
  LET rightItems == OrEmpty(comp.rightMenu)
      cleared == IF Len(r.array) > 0 THEN clear("_rightMenuItems", r) ELSE r
  IN IF Len(rightItems) > 0
       THEN pushAll("_rightMenuItems", cleared, rightItems)
       ELSE cleared

\* decodeTags as clear-and-rebuild.
decodeTags_Rebuild(r, previous, comp) ==
  LET newDefaultTags == OrEmpty(comp.defaultTags)
      cleared == IF Len(r.array) > 0 THEN clear("_allTags", r) ELSE r
  IN IF Len(newDefaultTags) > 0
       THEN pushAll("_allTags", cleared, newDefaultTags)
       ELSE cleared

\* Lines 213-224: the tag list after the defaultTags of comp are decoded,
\* given the default tags of the previous decoding.
decodeTags(r, previous, comp) ==
  LET newDefaultTags == OrEmpty(comp.defaultTags)
      toAdd == SelectSeq(newDefaultTags, LAMBDA tag : tag \notin Range(previous))
      added == IF Len(toAdd) > 0 THEN pushAll("_allTags", r, toAdd) ELSE r
      toRemove == SelectSeq(previous,
                            LAMBDA tag : tag \notin Range(newDefaultTags))
  IN removeEach("_allTags", added, toRemove)

\* Lines 186-225 of _onSettingsChanged on a tracker whose list fields are
\* self, reading the composite comp: the new list fields and the events the
\* lists emitted.
_onSettingsChanged(self, comp) ==
  LET left == decodeLeftMenu([array |-> self.leftMenuItems, events |-> << >>],
                             comp)
      right == decodeRightMenu([array |-> self.rightMenuItems,
                                events |-> left.events], comp)
      tags == decodeTags([array |-> self.allTags, events |-> right.events],
                         self.previousDefaultTags, comp)
  IN [fields |-> [allTags |-> tags.array,
                  leftMenuItems |-> left.array,
                  rightMenuItems |-> right.array,
                  previousDefaultTags |-> OrEmpty(comp.defaultTags)],
      events |-> tags.events]

\* setSpacerWidths that tears the toolbars and buttons of the panel down, to
\* have them built again with the new left space.
setSpacerWidths_TearDown(L, W, leftSpace) ==
  [c \in Cells |->
     IF c \in W
       THEN SelectSeq(L[c], LAMBDA w : ~IsToolbar(w) /\ ~IsButton(w))
       ELSE L[c]]

\* setSpacerWidths with querySelector for querySelectorAll: the first spacer
\* of the panel only.
setSpacerWidths_First(L, W, leftSpace) ==
  LET with == {c \in W : \E i \in 1..Len(L[c]) : IsToolbar(L[c][i])} IN
  [c \in Cells |->
     IF c \in with /\ \A d \in with : c <= d
       THEN [i \in 1..Len(L[c]) |->
               IF IsToolbar(L[c][i])
                 THEN [L[c][i] EXCEPT !.spacerWidth = Px(leftSpace)]
                 ELSE L[c][i]]
       ELSE L[c]]

\* Lines 227-233: panel.node.querySelectorAll(spacer).forEach(set width) on
\* the layouts L of the cell widgets W attached to the panel.
setSpacerWidths(L, W, leftSpace) ==
  [c \in Cells |->
     IF c \in W
       THEN [i \in 1..Len(L[c]) |->
               IF IsToolbar(L[c][i])
                 THEN [L[c][i] EXCEPT !.spacerWidth = Px(leftSpace)]
                 ELSE L[c][i]]
       ELSE L[c]]

(* ---------------------- updateConnectedCells --------------------------- *)

\* widget.hasClass(name)
hasClass(w, name) == name \in w.classes

\* _getCell that takes the first cell widget of the panel, whatever its
\* model.
_getCell_First(W, model) ==
  IF W # {} THEN Some(CHOOSE c \in W : \A d \in W : c <= d) ELSE None

\* panel.content.widgets.find(widget => widget.model === model) on the cell
\* widgets W of the tracker's panel: the cell widget, None when not found.
_getCell(W, model) == IF model \in W THEN Some(model) ELSE None

\* _findToolbarWidgets without the filter: every child of the layout.
_findToolbarWidgets_NoFilter(ws) == ws

\* layout.widgets.filter(widget => widget.hasClass(CELL_BAR_CLASS))
_findToolbarWidgets(ws) == SelectSeq(ws, LAMBDA w : hasClass(w, CELL_BAR_CLASS))

\* Disposing child widgets removes them from the layout that holds them.
disposeAll(ws, found) == SelectSeq(ws, LAMBDA w : w \notin Range(found))

_removeToolbar(W, L, model) ==
  LET cell == _getCell(W, model) IN
  IF cell # None
    THEN [L EXCEPT ![cell[1]] = disposeAll(@, _findToolbarWidgets(@))]
    ELSE L

\* positionedButtons without the test of commands.hasCommand.
positionedButtons_Unfiltered(cmds) ==
  LET button(entry) ==
        addClass(
          addClass(
            PositionedButton(entry.icon, entry.command,
                             CommandClassName(entry.command),
                             IF entry.tooltip # Absent THEN entry.tooltip
                                                       ELSE Label(entry.command)),
            CELL_BAR_CLASS),
          CellTypeClassName(entry.cellType))
  IN [i \in 1..Len(POSITIONED_BUTTONS) |-> button(POSITIONED_BUTTONS[i])]

\* The positioned buttons _addToolbar builds, in the order of
\* POSITIONED_BUTTONS, for the commands the registry has.
positionedButtons(cmds) ==
  LET entries == SelectSeq(POSITIONED_BUTTONS, LAMBDA e : e.command \in cmds)
      button(entry) ==
        addClass(
          addClass(
            PositionedButton(entry.icon, entry.command,
                             CommandClassName(entry.command),
                             IF entry.tooltip # Absent THEN entry.tooltip
                                                       ELSE Label(entry.command)),
            CELL_BAR_CLASS),
          CellTypeClassName(entry.cellType))
  IN [i \in 1..Len(entries) |-> button(entries[i])]

\* _addToolbar with the two menu lists passed in each other's place.
_addToolbar_SwappedMenus(t, comp, cmds, W, L, model) ==
  LET cell == _getCell(W, model) IN
  IF cell # None
    THEN LET toolbar ==
               CellToolbarWidget(model, Ref(t, "_allTags"),
                                 Ref(t, "_rightMenuItems"),
                                 Ref(t, "_leftMenuItems"),
                                 IF _settings[t] THEN OrZero(comp.leftSpace)
                                                 ELSE 0)
             withBar == insertWidget(L[cell[1]], 0,
                                     addClass(toolbar, CELL_BAR_CLASS))
         IN [L EXCEPT ![cell[1]] = withBar \o positionedButtons(cmds)]
    ELSE L

\* _addToolbar of tracker t, whose settings composite is comp and whose
\* command registry has cmds.
_addToolbar(t, comp, cmds, W, L, model) ==
  LET cell == _getCell(W, model) IN
  IF cell # None
    THEN LET toolbar ==
               CellToolbarWidget(model, Ref(t, "_allTags"),
                                 Ref(t, "_leftMenuItems"),
                                 Ref(t, "_rightMenuItems"),
                                 IF _settings[t] THEN OrZero(comp.leftSpace)
                                                 ELSE 0)
             withBar == insertWidget(L[cell[1]], 0,
                                     addClass(toolbar, CELL_BAR_CLASS))
         IN [L EXCEPT ![cell[1]] = withBar \o positionedButtons(cmds)]
    ELSE L

\* oldValues.forEach(model => this._removeToolbar(model))
RECURSIVE removeToolbars(_, _, _)
removeToolbars(W, L, models) ==
  IF models = << >> THEN L
  ELSE removeToolbars(W, _removeToolbar(W, L, Head(models)), Tail(models))

\* newValues.forEach(model => this._addToolbar(model))
RECURSIVE addToolbars(_, _, _, _, _, _)
addToolbars(t, comp, cmds, W, L, models) ==
  IF models = << >> THEN L
  ELSE addToolbars(t, comp, cmds, W,
                   _addToolbar(t, comp, cmds, W, L, Head(models)),
                   Tail(models))

\* updateConnectedCells that handles newValues only.
updateConnectedCells_AddOnly(t, comp, cmds, W, L, oldValues, newValues) ==
  addToolbars(t, comp, cmds, W, L, newValues)

\* updateConnectedCells that handles newValues before oldValues.
updateConnectedCells_AddFirst(t, comp, cmds, W, L, oldValues, newValues) ==
  removeToolbars(W, addToolbars(t, comp, cmds, W, L, newValues), oldValues)

\* updateConnectedCells of tracker t on the change (oldValues, newValues),
\* with W the cell widgets of its panel and L the layouts.
updateConnectedCells(t, comp, cmds, W, L, oldValues, newValues) ==
  addToolbars(t, comp, cmds, W, removeToolbars(W, L, oldValues), newValues)

(* --------------------------- construction ------------------------------ *)

PositionedCommands ==
  {POSITIONED_BUTTONS[i].command : i \in 1..Len(POSITIONED_BUTTONS)}

\* The command sets the registry starts with: every notebook command, or
\* all of them but one, which an extension may add later.
InitialCommands ==
  {PositionedCommands, PositionedCommands \ {"notebook:move-cell-up"}}

\* A constructor that connects the signals and leaves the decoding of the
\* settings to the first settings change.
constructor_NoDecode(hasSettings, comp) ==
  [fields |-> NewFields, events |-> << >>]

\* new CellToolbarTracker(panel, commands, settings): the list fields after
\* the constructor, and the events emitted meanwhile.  hasSettings is
\* whether settings is an object (TRUE) or null (FALSE).
constructor(hasSettings, comp) ==
  IF hasSettings
    THEN _onSettingsChanged(NewFields, comp)
    ELSE [fields |-> NewFields, events |-> << >>]

\* The state after CellBarExtension.createNew(panel 1) on a notebook whose
\* cell list is still empty; panel 2 is not open.  The settings object holds
\* one of the composites of snapshots, and the tracker is given it or null.
InitWith(sources, snapshots) ==
  \E hasSettings \in sources, comp \in snapshots, cmds \in InitialCommands :
    LET made == constructor(hasSettings, comp) IN
      /\ cells = [p \in Trackers |-> {}]
      /\ widgets = [p \in Trackers |-> {}]
      /\ layout = [c \in Cells |-> << >>]
      /\ composite = comp
      /\ commands = cmds
      /\ settingsSlots = IF hasSettings THEN {1} ELSE {}
      /\ cellsSlots = [p \in Trackers |-> IF p = 1 THEN {1} ELSE {}]
      /\ constructed = [t \in Trackers |-> t = 1]
      /\ _settings = [t \in Trackers |-> t = 1 /\ hasSettings]
      /\ _panel = [t \in Trackers |-> IF t = 1 THEN Some(1) ELSE None]
      /\ _isDisposed = [t \in Trackers |-> FALSE]
      /\ _allTags = [t \in Trackers |->
                       IF t = 1 THEN made.fields.allTags ELSE << >>]
      /\ _leftMenuItems = [t \in Trackers |->
                       IF t = 1 THEN made.fields.leftMenuItems ELSE << >>]
      /\ _rightMenuItems = [t \in Trackers |->
                       IF t = 1 THEN made.fields.rightMenuItems ELSE << >>]
      /\ _previousDefaultTags = [t \in Trackers |->
                       IF t = 1 THEN made.fields.previousDefaultTags ELSE << >>]
      /\ emitted = [t \in Trackers |-> IF t = 1 THEN made.events ELSE << >>]
      /\ changed = None
      /\ redisposed = [t \in Trackers |-> FALSE]
      /\ thrown = FALSE

(* ------------------------------ actions -------------------------------- *)

NoEvents == [t \in Trackers |-> << >>]

Fields(t) ==
  [allTags |-> _allTags[t], leftMenuItems |-> _leftMenuItems[t],
   rightMenuItems |-> _rightMenuItems[t],
   previousDefaultTags |-> _previousDefaultTags[t]]

\* The layouts after every tracker of ts has pushed the left space of comp
\* to the spacers of its panel (a tracker without panel pushes nothing).
RECURSIVE spacersPushed(_, _, _)
spacersPushed(ts, comp, L) ==
  IF ts = {} THEN L
  ELSE LET t == CHOOSE x \in ts : \A y \in ts : x <= y
           L1 == IF _panel[t] = None THEN L
                 ELSE setSpacerWidths(L, widgets[_panel[t][1]],
                                      OrZero(comp.leftSpace))
       IN spacersPushed(ts \ {t}, comp, L1)

\* The settings object takes the composite snap and emits changed: every
\* connected tracker runs _onSettingsChanged.  On a tracker whose _panel is
\* null the handler throws at this._panel.node, after the lists are updated.
SettingsChanged(snap) ==
  \E run \in {[t \in settingsSlots |-> _onSettingsChanged(Fields(t), snap)]} :
    /\ \A t \in settingsSlots : Len(run[t].fields.allTags) <= MaxAllTags
    /\ composite' = snap
    /\ _allTags' = [t \in Trackers |->
         IF t \in settingsSlots THEN run[t].fields.allTags ELSE _allTags[t]]
    /\ _leftMenuItems' = [t \in Trackers |->
         IF t \in settingsSlots THEN run[t].fields.leftMenuItems
                                ELSE _leftMenuItems[t]]
    /\ _rightMenuItems' = [t \in Trackers |->
         IF t \in settingsSlots THEN run[t].fields.rightMenuItems
                                ELSE _rightMenuItems[t]]
    /\ _previousDefaultTags' = [t \in Trackers |->
         IF t \in settingsSlots THEN run[t].fields.previousDefaultTags
                                ELSE _previousDefaultTags[t]]
    /\ emitted' = [t \in Trackers |->
         IF t \in settingsSlots THEN run[t].events ELSE << >>]
    /\ layout' = spacersPushed(settingsSlots, snap, layout)
    /\ thrown' = (thrown \/ \E t \in settingsSlots : _panel[t] = None)
    /\ changed' = None
    /\ UNCHANGED <<cells, widgets, commands, settingsSlots, cellsSlots,
                   trackerVars, redisposed>>

\* cells.changed of panel p is emitted with (oldValues, newValues) after the
\* notebook widget, connected first, has brought the cell list to cells1,
\* the cell widgets to W1 and the layouts to L1; then the tracker connected
\* to the signal runs updateConnectedCells.  On a tracker whose _panel is
\* null the handler throws in _getCell.
CellsChanged(p, cells1, W1, L1, oldValues, newValues) ==
  /\ cells' = [cells EXCEPT ![p] = cells1]
  /\ widgets' = [widgets EXCEPT ![p] = W1]
  /\ IF cellsSlots[p] = {}
       THEN layout' = L1 /\ thrown' = thrown
       ELSE LET t == CHOOSE x \in cellsSlots[p] : TRUE IN
              IF _panel[t] = None
                THEN layout' = L1 /\ thrown' = TRUE
                ELSE /\ layout' = updateConnectedCells(t, composite, commands,
                                                       W1, L1, oldValues,
                                                       newValues)
                     /\ thrown' = thrown
  /\ emitted' = NoEvents
  /\ changed' = Some([panel |-> p, oldValues |-> oldValues,
                      newValues |-> newValues])
  /\ UNCHANGED <<composite, commands, settingsSlots, cellsSlots, trackerVars,
                 listVars, redisposed>>

\* The cell models in no notebook.
FreshCells == Cells \ UNION {cells[p] : p \in Trackers}

\* The models of S as a list, in the order of their identities.
RECURSIVE ListOf(_)
ListOf(S) ==
  IF S = {} THEN << >>
  ELSE LET m == CHOOSE x \in S : \A y \in S : x <= y
       IN <<m>> \o ListOf(S \ {m})

\* cells.insert / push / insertAll / pushAll: the new models of added enter
\* the list; the notebook widget has attached a cell widget for the models
\* of rendered, and not yet for the others.
HostInsertAll(p, added, rendered) ==
  /\ constructed[p]
  /\ added # {}
  /\ added \subseteq FreshCells
  /\ rendered \subseteq added
  /\ CellsChanged(p, cells[p] \cup added, widgets[p] \cup rendered,
                  [c \in Cells |-> IF c \in rendered THEN CellChildren
                                                     ELSE layout[c]],
                  << >>, ListOf(added))

\* cells.remove / removeRange / clear: the models of removed leave the list;
\* the notebook widget has disposed their cell widgets, children included.
HostRemoveRange(p, removed) ==
  /\ constructed[p]
  /\ removed # {}
  /\ removed \subseteq cells[p]
  /\ CellsChanged(p, cells[p] \ removed, widgets[p] \ removed,
                  [c \in Cells |-> IF c \in removed THEN << >> ELSE layout[c]],
                  ListOf(removed), << >>)

\* cells.move(from, to): the model changes place in the list; the notebook
\* widget moves its cell widget, which it keeps.  The event names the model
\* as removed and as added.
HostMove(p, model) ==
  /\ constructed[p]
  /\ model \in cells[p]
  /\ Cardinality(cells[p]) > 1
  /\ CellsChanged(p, cells[p], widgets[p], layout, <<model>>, <<model>>)

\* cells.set(index, model): a new model replaces old; the notebook widget
\* has disposed the old cell widget and, when rendered, attached one for the
\* new model.
HostSet(p, old, model, rendered) ==
  /\ constructed[p]
  /\ old \in cells[p]
  /\ model \in FreshCells
  /\ CellsChanged(p, (cells[p] \ {old}) \cup {model},
                  (widgets[p] \ {old}) \cup (IF rendered THEN {model} ELSE {}),
                  [c \in Cells |->
                     IF c = old THEN << >>
                     ELSE IF c = model /\ rendered THEN CellChildren
                     ELSE layout[c]],
                  <<old>>, <<model>>)

\* The notebook widget attaches the cell widget of a model it had not
\* rendered when the model entered the list.  No signal reaches the tracker.
HostRender(p, model) ==
  /\ constructed[p]
  /\ model \in cells[p] \ widgets[p]
  /\ widgets' = [widgets EXCEPT ![p] = @ \cup {model}]
  /\ layout' = [layout EXCEPT ![model] = CellChildren]
  /\ emitted' = NoEvents
  /\ changed' = None
  /\ UNCHANGED <<cells, composite, commands, settingsSlots, cellsSlots,
                 trackerVars, listVars, redisposed, thrown>>

\* commands.addCommand(id) by some extension of the host
HostAddCommand(id) ==
  /\ id \in PositionedCommands \ commands
  /\ commands' = commands \cup {id}
  /\ emitted' = NoEvents
  /\ changed' = None
  /\ UNCHANGED <<cells, widgets, layout, composite, settingsSlots, cellsSlots,
                 trackerVars, listVars, redisposed, thrown>>

\* dispose() that leaves the settings signal connected.
dispose_KeepsSettingsSlot(t) ==
  /\ constructed[t]
  /\ emitted' = NoEvents
  /\ changed' = None
  /\ IF _isDisposed[t]
       THEN /\ redisposed' = [redisposed EXCEPT ![t] = TRUE]
            /\ UNCHANGED <<hostVars, trackerVars, listVars, thrown>>
       ELSE /\ _isDisposed' = [_isDisposed EXCEPT ![t] = TRUE]
            /\ cellsSlots' = [cellsSlots EXCEPT ![_panel[t][1]] = @ \ {t}]
            /\ _panel' = [_panel EXCEPT ![t] = None]
            /\ UNCHANGED <<cells, widgets, layout, composite, commands,
                           settingsSlots, constructed, _settings, listVars,
                           redisposed, thrown>>

\* dispose() without the early return: on a disposed tracker it goes on to
\* this._panel.context with _panel null, and throws.
dispose_NoGuard(t) ==
  /\ constructed[t]
  /\ emitted' = NoEvents
  /\ changed' = None
  /\ IF _isDisposed[t]
       THEN /\ redisposed' = [redisposed EXCEPT ![t] = TRUE]
            /\ settingsSlots' = IF _settings[t] THEN settingsSlots \ {t}
                                                ELSE settingsSlots
            /\ thrown' = TRUE
            /\ UNCHANGED <<cells, widgets, layout, composite, commands,
                           cellsSlots, trackerVars, listVars>>
       ELSE /\ _isDisposed' = [_isDisposed EXCEPT ![t] = TRUE]
            /\ settingsSlots' = IF _settings[t] THEN settingsSlots \ {t}
                                                ELSE settingsSlots
            /\ cellsSlots' = [cellsSlots EXCEPT ![_panel[t][1]] = @ \ {t}]
            /\ _panel' = [_panel EXCEPT ![t] = None]
            /\ UNCHANGED <<cells, widgets, layout, composite, commands,
                           constructed, _settings, listVars, redisposed,
                           thrown>>

\* tracker.dispose()
dispose(t) ==
  /\ constructed[t]
  /\ emitted' = NoEvents
  /\ changed' = None
  /\ IF _isDisposed[t]
       THEN /\ redisposed' = [redisposed EXCEPT ![t] = TRUE]
            /\ UNCHANGED <<hostVars, trackerVars, listVars, thrown>>
       ELSE /\ _isDisposed' = [_isDisposed EXCEPT ![t] = TRUE]
            /\ settingsSlots' = IF _settings[t] THEN settingsSlots \ {t}
                                                ELSE settingsSlots
            /\ cellsSlots' = [cellsSlots EXCEPT ![_panel[t][1]] = @ \ {t}]
            /\ _panel' = [_panel EXCEPT ![t] = None]
            /\ UNCHANGED <<cells, widgets, layout, composite, commands,
                           constructed, _settings, listVars, redisposed,
                           thrown>>

(* --------------------------- specifications ---------------------------- *)

\* The events of the host's loop, with the settings composites of snapshots.
HostEvents(snapshots) ==
  \/ \E snap \in snapshots : SettingsChanged(snap)
  \/ \E p \in Trackers, added \in SUBSET Cells, rendered \in SUBSET Cells :
        HostInsertAll(p, added, rendered)
  \/ \E p \in Trackers, removed \in SUBSET Cells : HostRemoveRange(p, removed)
  \/ \E p \in Trackers, model \in Cells : HostMove(p, model)
  \/ \E p \in Trackers, old \in Cells, model \in Cells, rendered \in BOOLEAN :
        HostSet(p, old, model, rendered)
  \/ \E p \in Trackers, model \in Cells : HostRender(p, model)
  \/ \E id \in PositionedCommands : HostAddCommand(id)

\* A notebook panel with its tracker, given the settings object or null:
\* cell events, settings events that vary the left space, and dispose.
Init == InitWith(BOOLEAN, SpaceSnapshots)

Next ==
  \/ HostEvents(SpaceSnapshots)
  \/ \E t \in Trackers : dispose(t)

Spec == Init /\ [][Next]_vars

\* A tracker given the settings object, while it lives: settings events that
\* vary the default tags and the two menus.
InitSettings == InitWith({TRUE}, ListSnapshots)

NextSettings == \E snap \in ListSnapshots : SettingsChanged(snap)

SpecSettings == InitSettings /\ [][NextSettings]_vars

(* ------------------------------ properties ----------------------------- *)

\* The Toolbar Instances on the rendering surface of cell c.
Bars(c) == SelectSeq(layout[c], IsToolbar)
NumToolbars(c) == Len(Bars(c))

\* The toolbars and positioned buttons on the rendering surface of cell c.
BarWidgets(c) == _findToolbarWidgets(layout[c])

\* Tracker t exists and has not been disposed.
LiveTracker(t) == constructed[t] /\ ~_isDisposed[t]

\* The list a reference held by a toolbar leads to.
Deref(ref) ==
  CASE ref[2] = "_allTags" -> _allTags[ref[1]]
    [] ref[2] = "_leftMenuItems" -> _leftMenuItems[ref[1]]
    [] ref[2] = "_rightMenuItems" -> _rightMenuItems[ref[1]]

\* The events of emitted[t] that list name emitted.
EventsOf(t, name) == SelectSeq(emitted[t], LAMBDA e : e.list = name)

\* The values the events of type type in the event list es carry.
ValuesOf(es, type) ==
  UNION {Range(es[i].oldValues) \cup Range(es[i].newValues) :
           i \in {j \in 1..Len(es) : es[j].type = type}}

AllLiveCells == UNION {cells[p] : p \in Trackers}

\* C1 as the spec states it: after each cell-list change event delivered to
\* a non-disposed tracker, every live cell of the notebook has exactly one
\* Toolbar Instance and no toolbar is on a removed cell, so there are as
\* many toolbars as live cells.
C1_OneToolbarPerLiveCell ==
  (changed # None /\ LiveTracker(changed[1].panel)) =>
     /\ \A c \in cells[changed[1].panel] : NumToolbars(c) = 1
     /\ \A c \in Cells \ AllLiveCells : NumToolbars(c) = 0

\* C1 (amended), state part: no cell has two or more Toolbar Instances; a
\* Toolbar Instance is on the attached surface of a live cell and bound to
\* that cell's model; and after a cell-list change event delivered to a
\* non-disposed tracker every model the event names as added whose surface
\* is attached has exactly one.
C1_State ==
  /\ \A c \in Cells :
       /\ NumToolbars(c) <= 1
       /\ NumToolbars(c) = 1 =>
            /\ \E p \in Trackers : c \in cells[p] /\ c \in widgets[p]
            /\ Bars(c)[1].model = c
  /\ (changed # None /\ LiveTracker(changed[1].panel)) =>
       \A c \in Range(changed[1].newValues) :
         c \in widgets[changed[1].panel] => NumToolbars(c) = 1

\* C1 (amended), step part: a cell that has its Toolbar Instance keeps
\* exactly one for as long as its surface stays attached.
C1_Keeps ==
  \A p \in Trackers, c \in Cells :
    (c \in widgets[p] /\ c \in widgets'[p] /\ NumToolbars(c) = 1)
      => Len(SelectSeq(layout'[c], IsToolbar)) = 1

\* C1 (amended): for every sequence of cell-list change events delivered to
\* a non-disposed tracker, after each event every cell the event adds whose
\* rendering surface is attached has exactly one Toolbar Instance and keeps
\* exactly one while its surface stays attached; no cell has two or more and
\* no Toolbar Instance belongs to a removed cell.
C1_ToolbarPerRenderedCell == []C1_State /\ [][C1_Keeps]_vars

\* C1 witness: a move event (the same model removed and added) has been
\* handled in a notebook of two cells, and both cells have one toolbar.
C1_Witness ==
  /\ changed # None
  /\ LiveTracker(changed[1].panel)
  /\ changed[1].oldValues = changed[1].newValues
  /\ Cardinality(cells[changed[1].panel]) = 2
  /\ \A c \in cells[changed[1].panel] : NumToolbars(c) = 1

\* C2: on a settings change with previous default tags P and new default
\* tags N, the tag list removes exactly the tags of P not in N and appends
\* exactly the tags of N not in P; a tag in both is in no event and stays in
\* the list as often as it was.
C2_TagDiff ==
  [][\A t \in settingsSlots :
       LET P == Range(_previousDefaultTags[t])
           N == Range(OrEmpty(composite'.defaultTags))
           es == SelectSeq(emitted'[t], LAMBDA e : e.list = "_allTags")
           count(list, tag) ==
             Cardinality({i \in 1..Len(list) : list[i] = tag})
       IN /\ ValuesOf(es, "remove") = P \ N
          /\ ValuesOf(es, "add") = N \ P
          /\ \A tag \in P \cap N :
               count(_allTags'[t], tag) = count(_allTags[t], tag)
          /\ \A tag \in P \ N :
               count(_allTags'[t], tag) < count(_allTags[t], tag)
          /\ \A tag \in N \ P :
               count(_allTags'[t], tag) > count(_allTags[t], tag)
    ]_vars

\* C2 witness: the change from defaultTags [a, b] to [b, c] has been
\* handled: a was removed, c was appended, and the list is [b, c].
C2_Witness ==
  /\ _previousDefaultTags[1] = <<"b", "c">>
  /\ _allTags[1] = <<"b", "c">>
  /\ EventsOf(1, "_allTags") =
       << Event("_allTags", "add", << >>, <<"c">>),
          Event("_allTags", "remove", <<"a">>, << >>) >>

\* C3: once a composite with leftMenu null is decoded the left menu list is
\* the built-in default menu of four items, and once one with leftMenu [] is
\* decoded the list is empty.
C3_NullVsEmptyLeftMenu ==
  \A t \in settingsSlots :
    /\ composite.leftMenu = None => _leftMenuItems[t] = DEFAULT_LEFT_MENU
    /\ composite.leftMenu = Some(<< >>) => _leftMenuItems[t] = << >>

\* C3 witness: leftMenu [] has been decoded into a list that held the
\* default menu, and the list is empty.
C3_Witness ==
  /\ 1 \in settingsSlots
  /\ composite.leftMenu = Some(<< >>)
  /\ _leftMenuItems[1] = << >>
  /\ EventsOf(1, "_leftMenuItems") =
       << Event("_leftMenuItems", "remove", DEFAULT_LEFT_MENU, << >>) >>

\* C4 as the spec states it: a tracker constructed with settings null never
\* reconciles on settings, and every Toolbar Instance it creates has left
\* space 0 and a left menu list holding the built-in default left menu.
C4_NullSettingsDefaults ==
  \A t \in Trackers :
    (constructed[t] /\ ~_settings[t]) =>
      /\ t \notin settingsSlots
      /\ emitted[t] = << >>
      /\ \A c \in widgets[t] : \A i \in 1..NumToolbars(c) :
           /\ Bars(c)[i].spacerWidth = Px(0)
           /\ Deref(Bars(c)[i].leftMenuItems) = DEFAULT_LEFT_MENU

\* C5 as the spec states it: in the disposed state no Toolbar Instance the
\* tracker created is alive on any cell.
C5_DisposeDestroysToolbars ==
  \A t \in Trackers :
    _isDisposed[t] =>
      \A c \in Cells : \A i \in 1..NumToolbars(c) : Bars(c)[i].tagsList[1] # t

\* C6: once a tracker is disposed it stays disposed, and no later event
\* changes its three lists or its previous default tags, creates a toolbar
\* or button, or destroys one on a surface that stays attached (the host
\* disposes the children of the surfaces it tears down).
C6_DisposeTerminal ==
  [][\A t \in Trackers :
       _isDisposed[t] =>
         /\ _isDisposed'[t]
         /\ _allTags'[t] = _allTags[t]
         /\ _leftMenuItems'[t] = _leftMenuItems[t]
         /\ _rightMenuItems'[t] = _rightMenuItems[t]
         /\ _previousDefaultTags'[t] = _previousDefaultTags[t]
         /\ t \notin settingsSlots' /\ t \notin cellsSlots'[t]
         /\ \A c \in widgets'[t] :
              _findToolbarWidgets(layout'[c]) = BarWidgets(c)
    ]_vars

\* C6 witness: after dispose the settings changed (the left menu list no
\* longer matches the composite) and a cell-list event added a cell, whose
\* surface has no toolbar.
C6_Witness ==
  /\ _isDisposed[1] /\ _settings[1]
  /\ composite.leftMenu = None /\ _leftMenuItems[1] # DEFAULT_LEFT_MENU
  /\ changed # None
  /\ \E c \in Range(changed[1].newValues) :
       c \in widgets[1] /\ BarWidgets(c) = << >>

\* C7: dispose() on a disposed tracker throws nothing, emits nothing and
\* leaves the flag, the subscriptions, the lists and the toolbars as they
\* were.
C7_DisposeIdempotent ==
  [][\A t \in Trackers :
       (_isDisposed[t] /\ ~redisposed[t] /\ redisposed'[t]) =>
         /\ UNCHANGED <<hostVars, trackerVars, listVars, thrown>>
         /\ emitted'[t] = << >>
    ]_vars

\* C7 witness: dispose() has been called on a disposed tracker that has a
\* toolbar on a cell.
C7_Witness ==
  /\ redisposed[1] /\ _isDisposed[1] /\ ~thrown
  /\ \E c \in widgets[1] : NumToolbars(c) = 1

\* C8: every Toolbar Instance of a panel holds the references to the three
\* lists of the panel's tracker, so what it reads through them is what the
\* tracker's lists hold, also after a settings change.
C8_SharedCollections ==
  \A t \in Trackers : \A c \in widgets[t] : \A i \in 1..NumToolbars(c) :
    LET w == Bars(c)[i] IN
      /\ w.tagsList = Ref(t, "_allTags")
      /\ w.leftMenuItems = Ref(t, "_leftMenuItems")
      /\ w.rightMenuItems = Ref(t, "_rightMenuItems")
      /\ Deref(w.tagsList) = _allTags[t]
      /\ Deref(w.leftMenuItems) = _leftMenuItems[t]
      /\ Deref(w.rightMenuItems) = _rightMenuItems[t]

\* C8 witness: a settings change has replaced the left menu list while two
\* cells had their toolbar.
C8_Witness ==
  /\ EventsOf(1, "_leftMenuItems") # << >>
  /\ _leftMenuItems[1] = <<RunItem>>
  /\ Cardinality({c \in widgets[1] : NumToolbars(c) = 1}) = 2

\* C9: while the tracker lives, the spacer of every Toolbar Instance is as
\* wide as the leftSpace of the composite decoded last (0 when leftSpace is
\* absent, and when the tracker has no settings).
C9_SpacerFollowsLeftSpace ==
  \A t \in Trackers :
    LiveTracker(t) =>
      \A c \in widgets[t] : \A i \in 1..NumToolbars(c) :
        Bars(c)[i].spacerWidth =
          Px(IF _settings[t] THEN OrZero(composite.leftSpace) ELSE 0)

\* C9 witness: a settings change has been handled while two cells had their
\* toolbar, and both spacers are 48px wide.
C9_Witness ==
  /\ LiveTracker(1) /\ emitted[1] # << >>
  /\ composite.leftSpace = Some(48)
  /\ Cardinality({c \in widgets[1] :
                    NumToolbars(c) = 1 /\ Bars(c)[1].spacerWidth = Px(48)}) = 2

\* C10: after each settings change the left menu list is the leftMenu of
\* the composite when that is a list, and the right menu list is the
\* rightMenu of the composite, empty when that is null.
C10_MenusReplaced ==
  \A t \in settingsSlots :
    /\ composite.leftMenu # None => _leftMenuItems[t] = composite.leftMenu[1]
    /\ composite.rightMenu # None => _rightMenuItems[t] = composite.rightMenu[1]
    /\ composite.rightMenu = None => _rightMenuItems[t] = << >>

\* C10 witness: both lists held items, and a settings change has replaced
\* them by other lists of items.
C10_Witness ==
  /\ 1 \in settingsSlots
  /\ composite.leftMenu = Some(<<RunItem>>)
  /\ composite.rightMenu = Some(<<DeleteItem, RunItem>>)
  /\ EventsOf(1, "_leftMenuItems") =
       << Event("_leftMenuItems", "remove", <<DeleteItem, RunItem>>, << >>),
          Event("_leftMenuItems", "add", << >>, <<RunItem>>) >>
  /\ EventsOf(1, "_rightMenuItems") =
       << Event("_rightMenuItems", "remove", <<RunItem>>, << >>),
          Event("_rightMenuItems", "add", << >>, <<DeleteItem, RunItem>>) >>

\* The positioned buttons on the rendering surface of cell c.
Buttons(c) == SelectSeq(layout[c], IsButton)

\* The last step was a cell-list change event that names the same models as
\* removed and as added (a move), delivered to a tracker that is not disposed.
MoveHandled ==
  /\ changed # None
  /\ LiveTracker(changed[1].panel)
  /\ changed[1].oldValues # << >>
  /\ changed[1].oldValues = changed[1].newValues

\* C11 as the spec states it: after a move event the moved cell has exactly
\* one Toolbar Instance and exactly one set of positioned buttons.
C11_MoveLeavesOneToolbar ==
  MoveHandled =>
    \A c \in Range(changed[1].newValues) :
      NumToolbars(c) = 1 /\ Buttons(c) = positionedButtons(commands)

\* C11 (amended): the removed models are handled before the added ones, so
\* after a move event a moved cell whose rendering surface is attached has
\* exactly one Toolbar Instance, first in the layout, and exactly one set of
\* positioned buttons; a moved cell without surface has neither.
C11_MoveLeavesOneToolbarIfRendered ==
  MoveHandled =>
    \A c \in Range(changed[1].newValues) :
      IF c \in widgets[changed[1].panel]
        THEN /\ NumToolbars(c) = 1
             /\ IsToolbar(layout[c][1])
             /\ Buttons(c) = positionedButtons(commands)
        ELSE layout[c] = << >>

\* C11 witness: a move event has been handled for a cell whose surface is
\* attached, while the other cell of the notebook has no surface.
C11_Witness ==
  /\ MoveHandled
  /\ \E c \in Range(changed[1].newValues) :
       /\ c \in widgets[changed[1].panel]
       /\ NumToolbars(c) = 1
       /\ Len(Buttons(c)) = Len(POSITIONED_BUTTONS)
  /\ cells[changed[1].panel] \ widgets[changed[1].panel] # {}

\* The last step was a cell-list change event delivered to a tracker that is
\* not disposed.
EventHandled == changed # None /\ LiveTracker(changed[1].panel)

\* The models the last event added whose rendering surface was found.
AddedFound ==
  {c \in Range(changed[1].newValues) : c \in widgets[changed[1].panel]}

\* The commands of the positioned buttons in their fixed order.
ButtonOrder ==
  << "notebook:run-cell-and-select-next", "notebook:move-cell-up",
     "notebook:move-cell-down", "notebook:insert-cell-below" >>

\* C12: after an added model whose rendering surface is found is handled,
\* the new Toolbar Instance is the first child of the surface, the children
\* the surface had follow in their order, and the positioned buttons come
\* last, in the order run, move-up, move-down, insert-below, one for each
\* command the registry has and none for the others; nothing is thrown.
C12_ToolbarFirstButtonsLast ==
  EventHandled =>
    /\ ~thrown
    /\ \A c \in AddedFound :
         LET n == Len(layout[c])
             k == Len(Buttons(c))
         IN /\ n = 1 + Len(CellChildren) + k
            /\ IsToolbar(layout[c][1])
            /\ layout[c][1].model = c
            /\ SubSeq(layout[c], 2, n - k) = CellChildren
            /\ SubSeq(layout[c], n - k + 1, n) = Buttons(c)
            /\ [i \in 1..k |-> Buttons(c)[i].callback]
                 = SelectSeq(ButtonOrder, LAMBDA id : id \in commands)

\* C12 witness: an added model with a surface has been handled while one of
\* the four commands was not registered, and has three buttons.
C12_Witness ==
  /\ EventHandled
  /\ changed[1].oldValues = << >>
  /\ commands # PositionedCommands
  /\ \E c \in AddedFound : Len(Buttons(c)) = Len(POSITIONED_BUTTONS) - 1

\* The children of the list ws that have, or have not, the toolbar class.
WithBarClass(ws) == SelectSeq(ws, LAMBDA w : CELL_BAR_CLASS \in w.classes)
WithoutBarClass(ws) == SelectSeq(ws, LAMBDA w : CELL_BAR_CLASS \notin w.classes)

\* A step that delivers a cell-list change event to the tracker of a panel:
\* every model the event removes whose surface is attached keeps its
\* non-toolbar children, and of toolbar-class children it has only those the
\* same event built anew (none when the event does not add the model again);
\* the surfaces of the cells the event does not name are unchanged.
C13_Step ==
  (changed' # None /\ LiveTracker(changed'[1].panel)) =>
    LET p == changed'[1].panel
        old == Range(changed'[1].oldValues)
        new == Range(changed'[1].newValues)
    IN /\ \A c \in old \cap widgets'[p] :
            /\ WithoutBarClass(layout'[c]) = WithoutBarClass(layout[c])
            /\ Len(WithBarClass(layout'[c])) =
                 IF c \in new
                   THEN 1 + Cardinality(commands \cap PositionedCommands)
                   ELSE 0
       /\ \A d \in Cells \ (old \cup new) : layout'[d] = layout[d]

NamedMissing ==
  {c \in Range(changed[1].oldValues) \cup Range(changed[1].newValues) :
     c \notin widgets[changed[1].panel]}

\* A step that delivers a cell-list change event to the tracker of a panel:
\* nothing is thrown; a named model without cell widget gets no toolbar and
\* no button; no surface other than those of the added models that were
\* found, and those the host tore down with their removed model, changes;
\* and every added model that was found has its toolbar.
C14_Step ==
  (changed' # None /\ LiveTracker(changed'[1].panel)) =>
    LET p == changed'[1].panel
        old == Range(changed'[1].oldValues)
        new == Range(changed'[1].newValues)
        missing == NamedMissing'
    IN /\ thrown' = thrown
       /\ \A c \in missing : layout'[c] = << >>
       /\ \A d \in Cells \ (old \cup (new \ missing)) : layout'[d] = layout[d]
       /\ \A c \in new \ missing :
            /\ Len(SelectSeq(layout'[c], IsToolbar)) = 1
            /\ Len(SelectSeq(layout'[c], IsButton))
                 = Cardinality(commands \cap PositionedCommands)

\* C14: a model of a cell-list change event that has no cell widget in the
\* notebook's widget list is passed over silently: no error, no toolbar or
\* button created or destroyed, and the other models of the event are
\* handled all the same.
C14_MissingSurfaceSkipped == [][C14_Step]_vars

\* C14 witness: an event that added two models has been handled; the first
\* had no cell widget and has no toolbar, the second had one and has its
\* toolbar.
C14_Witness ==
  /\ EventHandled
  /\ Len(changed[1].newValues) = 2
  /\ changed[1].newValues[1] \in NamedMissing
  /\ NumToolbars(changed[1].newValues[1]) = 0
  /\ changed[1].newValues[2] \notin NamedMissing
  /\ NumToolbars(changed[1].newValues[2]) = 1

\* A settings change handled by the connected trackers: an empty left menu
\* list given an empty list emits nothing, an empty right menu list given
\* null or an empty list emits nothing, and the tag list emits nothing when
\* the snapshot's default tags are those of the previous snapshot.
C15_Step ==
  \A t \in settingsSlots :
    /\ (_leftMenuItems[t] = << >> /\ composite'.leftMenu = Some(<< >>))
         => EventsOf(t, "_leftMenuItems")' = << >>
    /\ (_rightMenuItems[t] = << >> /\ OrEmpty(composite'.rightMenu) = << >>)
         => EventsOf(t, "_rightMenuItems")' = << >>
    /\ Range(OrEmpty(composite'.defaultTags)) = Range(_previousDefaultTags[t])
         => EventsOf(t, "_allTags")' = << >>

\* C15: a settings change emits no change event for an operation that would
\* change nothing: none on an empty menu list whose new list is empty, none
\* on the tag list when the default tags equal the previous default tags.
C15_NoEventForNoOp == [][C15_Step]_vars

\* C15 witness: a snapshot with the default tags of the previous one and no
\* right menu has been decoded by a tracker that holds tags and an empty
\* right menu list: the left menu list was cleared and refilled, and the
\* two other lists have emitted nothing.
C15_Witness ==
  /\ 1 \in settingsSlots
  /\ composite.rightMenu = None
  /\ _rightMenuItems[1] = << >>
  /\ _allTags[1] # << >>
  /\ _previousDefaultTags[1] = OrEmpty(composite.defaultTags)
  /\ EventsOf(1, "_leftMenuItems") # << >>
  /\ EventsOf(1, "_rightMenuItems") = << >>
  /\ EventsOf(1, "_allTags") = << >>

\* C16: a tracker given a settings source has decoded the snapshot before
\* it handles a cell-list change event, so each toolbar it builds is given
\* lists that hold what the current snapshot says: the left menu (the
\* default one for null), the right menu, the default tags, and the left
\* space; never the empty lists of a tracker that has decoded nothing.
C16_ToolbarsBuiltConfigured ==
  (EventHandled /\ _settings[changed[1].panel]) =>
    \A c \in AddedFound :
      \A i \in 1..Len(layout[c]) :
        IsToolbar(layout[c][i]) =>
          /\ Deref(layout[c][i].leftMenuItems)
               = IF composite.leftMenu = None THEN DEFAULT_LEFT_MENU
                                              ELSE composite.leftMenu[1]
          /\ Deref(layout[c][i].rightMenuItems) = OrEmpty(composite.rightMenu)
          /\ Range(OrEmpty(composite.defaultTags))
               \subseteq Range(Deref(layout[c][i].tagsList))
          /\ layout[c][i].spacerWidth = Px(OrZero(composite.leftSpace))

\* C16 witness: a tracker given a settings source whose left menu is null
\* has built a toolbar, and the toolbar's left menu list holds the default
\* menu and its tag list the default tags.
C16_Witness ==
  /\ EventHandled
  /\ _settings[changed[1].panel]
  /\ composite.leftMenu = None
  /\ composite.defaultTags # None
  /\ \E c \in AddedFound :
       /\ NumToolbars(c) = 1
       /\ Deref(Bars(c)[1].leftMenuItems) = DEFAULT_LEFT_MENU
       /\ Deref(Bars(c)[1].tagsList) = composite.defaultTags[1]
       /\ Deref(Bars(c)[1].tagsList) # << >>

\* C17: after any sequence of settings changes, also with snapshots whose
\* defaultTags repeat a tag, the tags held in the tag list are, as a set,
\* the default tags of the most recent snapshot.
C17_TagsAreCurrentDefaults ==
  \A t \in settingsSlots :
    Range(_allTags[t]) = Range(OrEmpty(composite.defaultTags))

\* The child widget after is the child widget before, but for the width of
\* a toolbar's spacer region.
SameWidget(before, after) ==
  IF IsToolbar(before)
    THEN IsToolbar(after) /\
         after = [before EXCEPT !.spacerWidth = after.spacerWidth]
    ELSE after = before

\* A step in which a tracker handles a cell-list change event leaves the
\* three lists and the previous default tags of every tracker unchanged and
\* has no list emit; a step in which a tracker handles a settings change
\* (its lists emit) leaves every surface with the children it had.
C18_Step ==
  /\ changed' # None =>
       /\ _allTags' = _allTags
       /\ _leftMenuItems' = _leftMenuItems
       /\ _rightMenuItems' = _rightMenuItems
       /\ _previousDefaultTags' = _previousDefaultTags
       /\ emitted' = NoEvents
  /\ (\E t \in Trackers : emitted'[t] # << >>) =>
       \A c \in Cells :
         /\ Len(layout'[c]) = Len(layout[c])
         /\ \A i \in 1..Len(layout[c]) : SameWidget(layout[c][i], layout'[c][i])

\* C18: the two handlers have disjoint effects: handling a cell-list change
\* event never modifies the three lists or the previous default tags, and
\* handling a settings change never creates or destroys a Toolbar Instance
\* or a positioned button.
C18_DisjointEffects == [][C18_Step]_vars

\* C18 witness: a tracker that had built a toolbar and buttons has handled a
\* settings change; the toolbar and the buttons are on the surface, and the
\* toolbar's spacer has the left space of the snapshot.
C18_Witness ==
  /\ emitted[1] # << >>
  /\ LiveTracker(1)
  /\ composite.leftSpace = Some(48)
  /\ \E c \in widgets[1] :
       /\ NumToolbars(c) = 1
       /\ Bars(c)[1].spacerWidth = Px(48)
       /\ Len(Buttons(c)) > 0

(* ---------------------------- two notebooks ---------------------------- *)

\* The snapshots of the specification of two notebooks: default tags that
\* are one tag, repeated or not, and one snapshot with both menus set.
MultiSnapshots ==
  {Snapshot(Some(tg), None, None, Some(0)) : tg \in SeqUpTo({"a"}, MaxTagLen)}
  \cup {Snapshot(Some(<< >>), Some(<<RunItem>>), Some(<<DeleteItem, RunItem>>),
                 Some(0))}

\* CellBarExtension.createNew(panel p): a tracker for panel p, given the
\* extension's settings object, which holds the current composite.
createNew(p) ==
  /\ ~constructed[p]
  /\ LET made == constructor(TRUE, composite) IN
       /\ constructed' = [constructed EXCEPT ![p] = TRUE]
       /\ _settings' = [_settings EXCEPT ![p] = TRUE]
       /\ _panel' = [_panel EXCEPT ![p] = Some(p)]
       /\ _allTags' = [_allTags EXCEPT ![p] = made.fields.allTags]
       /\ _leftMenuItems' =
            [_leftMenuItems EXCEPT ![p] = made.fields.leftMenuItems]
       /\ _rightMenuItems' =
            [_rightMenuItems EXCEPT ![p] = made.fields.rightMenuItems]
       /\ _previousDefaultTags' =
            [_previousDefaultTags EXCEPT ![p] = made.fields.previousDefaultTags]
       /\ emitted' = [NoEvents EXCEPT ![p] = made.events]
  /\ settingsSlots' = settingsSlots \cup {p}
  /\ cellsSlots' = [cellsSlots EXCEPT ![p] = {p}]
  /\ changed' = None
  /\ UNCHANGED <<cells, widgets, layout, composite, commands, _isDisposed,
                 redisposed, thrown>>

\* One extension with its settings object and two notebook panels: the
\* tracker of panel 1 exists, the one of panel 2 is created when its panel
\* is opened; settings changes, a first cell entering a notebook (the cell
\* models are numbered after their notebook), and dispose.
InitMulti == InitWith({TRUE}, MultiSnapshots)

NextMulti ==
  \/ \E snap \in MultiSnapshots : SettingsChanged(snap)
  \/ \E p \in Trackers : createNew(p)
  \/ \E p \in Trackers : HostInsertAll(p, {p}, {p})
  \/ \E t \in Trackers : dispose(t)

SpecMulti == InitMulti /\ [][NextMulti]_vars

\* C19, first part: after a settings change that two trackers of the
\* extension have handled, their left menu lists hold the same items, their
\* right menu lists hold the same items and their tag lists hold the same
\* tags.
C19_SameContentsAfterChange ==
  (settingsSlots = Trackers /\ \A t \in Trackers : emitted[t] # << >>) =>
    /\ _leftMenuItems[1] = _leftMenuItems[2]
    /\ _rightMenuItems[1] = _rightMenuItems[2]
    /\ Range(_allTags[1]) = Range(_allTags[2])

====
